---- MODULE Spec2Model ----
(***************************************************************************)
(* Prioritization / optimization engine of service S6-MoteurPriorisation.  *)
(*                                                                         *)
(* Numbers are fixed-point integers:                                       *)
(*   risk_score         in hundredths          (0.75   -> 75)              *)
(*   effort_hours       in hundredths of hour  (4.0 h  -> 400)             *)
(*   effort_aware_score in ten-thousandths     (0.1875 -> 1875)            *)
(*   target_coverage    in hundredths          (0.8    -> 80)              *)
(* An optional argument (Python None or a value) is the empty sequence or  *)
(* a one-element sequence.  A selection is a sequence of positions of the  *)
(* input list `classes` (Python keeps references to the input dicts).      *)
(***************************************************************************)
EXTENDS Integers, Sequences, FiniteSets, TLC

\* ------------------------------------------------------------------ bounds
MaxLen == 2

\* ---------------------------------------------------- fixed-point scales
RiskScale == 100
EffortFloor == 10
DefaultK == 20
DefaultBudget == 4000
DefaultCoverage == 80

None == <<>>
Some(v) == <<v>>
IsNone(o) == o = <<>>
Val(o) == o[1]
\* Python truthiness of an Optional[number]: None and 0 are falsy
Truthy(o) == o # <<>> /\ o[1] # 0

\* ------------------------------------------------------------ input sets
RiskValues == {0, 50}
EffortValues == {0, 100, 200}
ScoreValues == {1000, 1500}
BudgetValues == {-100, 0, 100, 200}
CoverageValues == {-50, 0, 50, 100, 150}
KValues == -1 .. (MaxLen + 1)
MaxClassesValues == 0 .. MaxLen

Tiers == {"high", "medium", "low"}

CandidateItems ==
    [class_name : {<<>>}, risk_score : RiskValues, effort_hours : EffortValues,
     effort_aware_score : ScoreValues, module_criticality : {"low"}]

SeqsUpTo(S, n) == UNION {[1..m -> S] : m \in 0..n}

\* --------------------------------------------------------------- helpers
Range(s) == {s[i] : i \in DOMAIN s}

RECURSIVE SumOver(_, _, _)
\* sum(cls[field] for cls in sel)
SumOver(classes, sel, field) ==
    IF sel = <<>> THEN 0
    ELSE classes[Head(sel)][field] + SumOver(classes, Tail(sel), field)

AllPositions(classes) == [i \in 1..Len(classes) |-> i]

\* the positions of a set, ascending: `for i in range(n): if x[i] > 0.5`
AscSeq(S) ==
    [r \in 1..Cardinality(S) |->
        CHOOSE i \in S : Cardinality({j \in S : j < i}) = r - 1]

Max(a, b) == IF a >= b THEN a ELSE b
Min(a, b) == IF a <= b THEN a ELSE b

\* key=lambda x: x.get(maximize_score, 0.0)
ScoreGT(classes, a, b) ==
    classes[a].effort_aware_score > classes[b].effort_aware_score

\* key=lambda x: x.get(maximize_score, 0.0) / max(x.get('effort_hours', 1.0), 0.1)
\* compared by cross-multiplication (both denominators are positive)
RatioGT(classes, a, b) ==
    classes[a].effort_aware_score * Max(classes[b].effort_hours, EffortFloor)
        > classes[b].effort_aware_score * Max(classes[a].effort_hours, EffortFloor)

\* sorted(sel, key=score, reverse=True): descending and stable (equal keys
\* keep their order in sel); the element of rank r has r - 1 elements before it
SortByScore(classes, sel) ==
    LET n == Len(sel)
        before(p) == {q \in 1..n : ScoreGT(classes, sel[q], sel[p])
                                   \/ (~ScoreGT(classes, sel[p], sel[q]) /\ q < p)}
    IN  [r \in 1..n |-> sel[CHOOSE p \in 1..n : Cardinality(before(p)) = r - 1]]

\* sorted(sel, key=score/effort, reverse=True): descending and stable
SortByRatio(classes, sel) ==
    LET n == Len(sel)
        before(p) == {q \in 1..n : RatioGT(classes, sel[q], sel[p])
                                   \/ (~RatioGT(classes, sel[p], sel[q]) /\ q < p)}
    IN  [r \in 1..n |-> sel[CHOOSE p \in 1..n : Cardinality(before(p)) = r - 1]]

\* ------------------------------------------------------ greedy fallbacks
RECURSIVE greedy_budget_loop_overshoot(_, _, _, _, _)
\* variant: the candidate's own effort is left out of the budget test
greedy_budget_loop_overshoot(classes, order, budget_hours, selected, total_effort) ==
    IF order = <<>> THEN selected
    ELSE LET effort == classes[Head(order)].effort_hours IN
         IF total_effort <= budget_hours
         THEN greedy_budget_loop_overshoot(classes, Tail(order), budget_hours,
                                 Append(selected, Head(order)), total_effort + effort)
         ELSE greedy_budget_loop_overshoot(classes, Tail(order), budget_hours,
                                 selected, total_effort)

RECURSIVE greedy_budget_loop(_, _, _, _, _)
greedy_budget_loop(classes, order, budget_hours, selected, total_effort) ==
    IF order = <<>> THEN selected
    ELSE LET effort == classes[Head(order)].effort_hours IN
         IF total_effort + effort <= budget_hours
         THEN greedy_budget_loop(classes, Tail(order), budget_hours,
                                 Append(selected, Head(order)), total_effort + effort)
         ELSE greedy_budget_loop(classes, Tail(order), budget_hours,
                                 selected, total_effort)

\* variant: the candidates are visited by descending score, not score/effort
greedy_budget_selection_by_score(classes, budget_hours) ==
    greedy_budget_loop(classes, SortByScore(classes, AllPositions(classes)),
                       budget_hours, <<>>, 0)

greedy_budget_selection(classes, budget_hours) ==
    greedy_budget_loop(classes, SortByRatio(classes, AllPositions(classes)),
                       budget_hours, <<>>, 0)

RECURSIVE greedy_risk_loop_early(_, _, _, _, _)
\* variant: the loop stops before the candidate that would reach the target
greedy_risk_loop_early(classes, order, target_num, selected, total_risk) ==
    IF order = <<>> THEN selected
    ELSE IF RiskScale * (total_risk + classes[Head(order)].risk_score) < target_num
         THEN greedy_risk_loop_early(classes, Tail(order), target_num,
                               Append(selected, Head(order)),
                               total_risk + classes[Head(order)].risk_score)
         ELSE selected

RECURSIVE greedy_risk_loop(_, _, _, _, _)
\* total_risk < target_risk with target_risk = total_risk_all * coverage/100
\* is compared as  RiskScale * total_risk < target_num
greedy_risk_loop(classes, order, target_num, selected, total_risk) ==
    IF order = <<>> THEN selected
    ELSE IF RiskScale * total_risk < target_num
         THEN greedy_risk_loop(classes, Tail(order), target_num,
                               Append(selected, Head(order)),
                               total_risk + classes[Head(order)].risk_score)
         ELSE selected

\* target_num = RiskScale * target_risk
greedy_risk_selection(classes, target_num) ==
    greedy_risk_loop(classes, SortByScore(classes, AllPositions(classes)),
                     target_num, <<>>, 0)

RECURSIVE greedy_multi_loop(_, _, _, _, _, _, _, _)
greedy_multi_loop(classes, order, budget_hours, target_num, max_classes, selected, total_effort, total_risk) ==
    IF order = <<>> THEN selected
    ELSE LET cls == classes[Head(order)] IN
         IF Truthy(max_classes) /\ Len(selected) >= Val(max_classes)
         THEN selected
         ELSE IF Truthy(budget_hours)
                 /\ total_effort + cls.effort_hours > Val(budget_hours)
         THEN greedy_multi_loop(classes, Tail(order), budget_hours, target_num,
                                max_classes, selected, total_effort, total_risk)
         ELSE IF Truthy(target_num) /\ RiskScale * total_risk >= Val(target_num)
         THEN selected
         ELSE greedy_multi_loop(classes, Tail(order), budget_hours, target_num,
                                max_classes, Append(selected, Head(order)),
                                total_effort + cls.effort_hours,
                                total_risk + cls.risk_score)

greedy_multi_constraint(classes, budget_hours, target_coverage, max_classes) ==
    LET total_risk_all == SumOver(classes, AllPositions(classes), "risk_score")
        \* total_risk_all * target_coverage if target_coverage else None
        target_num == IF Truthy(target_coverage)
                      THEN Some(total_risk_all * Val(target_coverage))
                      ELSE None
    IN  greedy_multi_loop(classes, SortByScore(classes, AllPositions(classes)),
                          budget_hours, target_num, max_classes, <<>>, 0, 0)


\* ------------------------------------------------- exact solver (OR-Tools)
\* The 0/1 programs the code hands to pywraplp.  A solution is the set of
\* positions i with x[i] = 1.
SumSet(classes, S, field) == SumOver(classes, AscSeq(S), field)

\* variant: the budget row is strict (sum < budget_hours)
BudgetRow_strict(classes, S, budget_hours) ==
    IsNone(budget_hours)
    \/ (0 <= SumSet(classes, S, "effort_hours")
        /\ SumSet(classes, S, "effort_hours") < Val(budget_hours))

\* budget_constraint = solver.Constraint(0, budget_hours)
BudgetRow(classes, S, budget_hours) ==
    IsNone(budget_hours)
    \/ (0 <= SumSet(classes, S, "effort_hours")
        /\ SumSet(classes, S, "effort_hours") <= Val(budget_hours))

\* risk_constraint = solver.Constraint(total_risk * target_coverage, infinity)
RiskRow(classes, S, target_coverage) ==
    IsNone(target_coverage)
    \/ RiskScale * SumSet(classes, S, "risk_score")
         >= SumOver(classes, AllPositions(classes), "risk_score") * Val(target_coverage)

\* count_constraint = solver.Constraint(0, max_classes)
CountRow(S, max_classes) ==
    IsNone(max_classes) \/ Cardinality(S) <= Val(max_classes)

FeasibleSets(classes, budget_hours, target_coverage, max_classes) ==
    {S \in SUBSET (1..Len(classes)) :
        /\ BudgetRow(classes, S, budget_hours)
        /\ RiskRow(classes, S, target_coverage)
        /\ CountRow(S, max_classes)}

\* objective.SetMaximization() over sum of effort_aware_score
OptimalSets(classes, F) ==
    {S \in F : \A T \in F : SumSet(classes, T, "effort_aware_score")
                              <= SumSet(classes, S, "effort_aware_score")}

SolverStatuses == {"OPTIMAL", "FEASIBLE", "INFEASIBLE", "NOT_SOLVED"}

\* what solver.Solve() can answer: a status and, for OPTIMAL / FEASIBLE, a
\* solution of the program; INFEASIBLE only for a program without solution;
\* NOT_SOLVED (or ABNORMAL) for any program
SolveOutcomes(classes, F) ==
    {[status |-> "OPTIMAL", x |-> S] : S \in OptimalSets(classes, F)}
    \cup {[status |-> "FEASIBLE", x |-> S] : S \in F}
    \cup (IF F = {} THEN {[status |-> "INFEASIBLE", x |-> {}]} ELSE {})
    \cup {[status |-> "NOT_SOLVED", x |-> {}]}

\* ------------------------------------------------------------ strategies
Strategies ==
    {"top_k_coverage", "maximize_popt20", "budget_optimization",
     "coverage_optimization", "multi_objective"}

OptimizerStrategies ==
    {"budget_optimization", "coverage_optimization", "multi_objective"}

NoArgs == [k |-> None, budget_hours |-> None, target_coverage |-> None,
           max_classes |-> None]

\* sorted_classes[:k]
Slice(s, k) ==
    LET n == Len(s)
        stop == IF k >= 0 THEN Min(k, n) ELSE Max(n + k, 0)
    IN  SubSeq(s, 1, stop)

top_k_coverage(classes, k) ==
    IF classes = <<>> THEN <<>>
    ELSE Slice(SortByScore(classes, AllPositions(classes)), k)

\* variant: one candidate is kept per distinct score
maximize_popt20_distinct_scores(classes) ==
    IF classes = <<>> THEN <<>>
    ELSE SortByScore(classes,
             AscSeq({i \in DOMAIN classes :
                        \A j \in 1..(i - 1) :
                           classes[j].effort_aware_score # classes[i].effort_aware_score}))

maximize_popt20(classes) ==
    IF classes = <<>> THEN <<>>
    ELSE SortByScore(classes, AllPositions(classes))

\* the early returns of budget_optimization / coverage_optimization /
\* multi_objective_optimization: TRUE when the strategy goes on to call the
\* optimization service
ReachesOptimizer(strategy, classes, a) ==
    /\ strategy \in OptimizerStrategies
    /\ classes # <<>>
    /\ strategy = "budget_optimization" => Val(a.budget_hours) > 0
    /\ strategy = "coverage_optimization" =>
           ~(Val(a.target_coverage) <= 0 \/ Val(a.target_coverage) > RiskScale)

\* the program of each optimize_* operation
ProgramOf(strategy, classes, a) ==
    CASE strategy = "budget_optimization" ->
            FeasibleSets(classes, a.budget_hours, None, None)
      [] strategy = "coverage_optimization" ->
            FeasibleSets(classes, None, a.target_coverage, None)
      [] OTHER ->
            FeasibleSets(classes, a.budget_hours, a.target_coverage, a.max_classes)

\* the greedy fallback of each optimize_* operation
GreedyOf(strategy, classes, a) ==
    CASE strategy = "budget_optimization" ->
            greedy_budget_selection(classes, Val(a.budget_hours))
      [] strategy = "coverage_optimization" ->
            greedy_risk_selection(classes,
                SumOver(classes, AllPositions(classes), "risk_score")
                    * Val(a.target_coverage))
      [] OTHER ->
            greedy_multi_constraint(classes, a.budget_hours, a.target_coverage,
                                    a.max_classes)

\* the result of a strategy that returns without calling the optimizer
WithoutOptimizer(strategy, classes, a) ==
    CASE strategy = "top_k_coverage" -> top_k_coverage(classes, Val(a.k))
      [] strategy \in OptimizerStrategies -> <<>>
      [] OTHER -> maximize_popt20(classes)

\* sorted(...) is executed by top_k_coverage / maximize_popt20 on a non-empty
\* list, and by the optimizer strategies after the optimizer returned
SortsWithoutOptimizer(strategy, classes) ==
    strategy \notin OptimizerStrategies /\ classes # <<>>


\* ------------------------------------------------------- EffortCalculator
\* EffortCalculator.__init__ defaults; complexity_factor in twentieths
loc_per_hour == 50
complexity_factor == 30
min_effort_hours == 50
max_effort_hours == 4000

\* round(num/den, 0) on an exact rational, den > 0, ties to even
RoundHalfEven(num, den) ==
    LET q == num \div den
        r == num % den
    IN  IF 2 * r < den THEN q
        ELSE IF 2 * r > den THEN q + 1
        ELSE IF q % 2 = 0 THEN q ELSE q + 1

\* EffortCalculator.__init__: an argument that is not given takes its default
EffortCalculator(lph, cf, mn, mx) ==
    [loc_per_hour |-> IF IsNone(lph) THEN loc_per_hour ELSE Val(lph),
     complexity_factor |-> IF IsNone(cf) THEN complexity_factor ELSE Val(cf),
     min_effort_hours |-> IF IsNone(mn) THEN min_effort_hours ELSE Val(mn),
     max_effort_hours |-> IF IsNone(mx) THEN max_effort_hours ELSE Val(mx)]

\* variant: the complexity multiplier is not capped by complexity_factor
estimate_effort_hours_uncapped(self, loc, complexity, num_methods, num_dependencies) ==
    IF loc <= 0 THEN self.min_effort_hours
    ELSE LET mult20 == IF complexity > 10 THEN complexity + 10 ELSE 20
             den == 20 * self.loc_per_hour
             num == 100 * loc * mult20
                    + (IF IsNone(num_methods) THEN 0 ELSE 10 * Val(num_methods)) * den
                    + (IF IsNone(num_dependencies) THEN 0 ELSE 5 * Val(num_dependencies)) * den
         IN  RoundHalfEven(Max(self.min_effort_hours * den,
                               Min(num, self.max_effort_hours * den)), den)

\* effort in hundredths of hour; complexity is an integer here, so
\* 1.0 + (complexity - 10) / 20.0 = (complexity + 10) / 20.
\* effort is the fraction num / den until the final round(effort, 2)
estimate_effort_hours(self, loc, complexity, num_methods, num_dependencies) ==
    IF loc <= 0 THEN self.min_effort_hours
    ELSE LET mult20 == IF complexity > 10
                       THEN Min(complexity + 10, self.complexity_factor)
                       ELSE 20
             den == 20 * self.loc_per_hour
             \* 100 * (loc / loc_per_hour) * mult20 / 20, then the factors
             num == 100 * loc * mult20
                    + (IF IsNone(num_methods) THEN 0 ELSE 10 * Val(num_methods)) * den
                    + (IF IsNone(num_dependencies) THEN 0 ELSE 5 * Val(num_dependencies)) * den
             \* max(self.min_effort_hours, min(effort, self.max_effort_hours))
         IN  RoundHalfEven(Max(self.min_effort_hours * den,
                               Min(num, self.max_effort_hours * den)), den)

\* variant: no `if effort_hours < 0.1` floor
calculate_effort_aware_score_no_floor(risk_score, effort_hours) ==
    IF effort_hours <= 0 THEN 0
    ELSE RoundHalfEven(10000 * risk_score, effort_hours)

\* risk in hundredths, effort in hundredths, score in ten-thousandths
calculate_effort_aware_score(risk_score, effort_hours) ==
    IF effort_hours <= 0 THEN 0
    ELSE RoundHalfEven(10000 * risk_score, Max(effort_hours, EffortFloor))

\* variant: the result item is built from four named fields only
calculate_for_classes_named_fields(self, predictions) ==
    [i \in 1..Len(predictions) |->
        LET pred == predictions[i]
            effort == estimate_effort_hours(self, pred.loc, pred.cyclomatic_complexity,
                                            pred.num_methods, pred.num_dependencies)
        IN  [class_name |-> pred.class_name,
             risk_score |-> pred.risk_score,
             effort_hours |-> effort,
             effort_aware_score |-> calculate_effort_aware_score(pred.risk_score, effort)]]

\* result item: {**pred, 'effort_hours': ..., 'effort_aware_score': ...};
\* a new list of new items, predictions and its items are only read
calculate_for_classes(self, predictions) ==
    [i \in 1..Len(predictions) |->
        LET pred == predictions[i]
            effort == estimate_effort_hours(self, pred.loc, pred.cyclomatic_complexity,
                                            pred.num_methods, pred.num_dependencies)
        IN  [f \in DOMAIN pred \cup {"effort_hours", "effort_aware_score"} |->
                CASE f = "effort_hours" -> effort
                  [] f = "effort_aware_score" ->
                        calculate_effort_aware_score(pred.risk_score, effort)
                  [] OTHER -> pred[f]]]

\* EffortCalculator.update_config: every argument that is given is assigned
update_config(self, lph, cf, mn, mx) ==
    [loc_per_hour |-> IF IsNone(lph) THEN self.loc_per_hour ELSE Val(lph),
     complexity_factor |-> IF IsNone(cf) THEN self.complexity_factor ELSE Val(cf),
     min_effort_hours |-> IF IsNone(mn) THEN self.min_effort_hours ELSE Val(mn),
     max_effort_hours |-> IF IsNone(mx) THEN self.max_effort_hours ELSE Val(mx)]

\* ----------------------------------------------------- CriticalityService
\* A class name is a sequence of one-character strings.
UpperToLower ==
    [c \in {"A", "B", "C", "D", "E", "F", "G", "H", "I", "J", "K", "L", "M", "N", "O", "P", "Q", "R", "S", "T", "U", "V", "W", "X", "Y", "Z"} |->
        CASE c = "A" -> "a"
          [] c = "B" -> "b"
          [] c = "C" -> "c"
          [] c = "D" -> "d"
          [] c = "E" -> "e"
          [] c = "F" -> "f"
          [] c = "G" -> "g"
          [] c = "H" -> "h"
          [] c = "I" -> "i"
          [] c = "J" -> "j"
          [] c = "K" -> "k"
          [] c = "L" -> "l"
          [] c = "M" -> "m"
          [] c = "N" -> "n"
          [] c = "O" -> "o"
          [] c = "P" -> "p"
          [] c = "Q" -> "q"
          [] c = "R" -> "r"
          [] c = "S" -> "s"
          [] c = "T" -> "t"
          [] c = "U" -> "u"
          [] c = "V" -> "v"
          [] c = "W" -> "w"
          [] c = "X" -> "x"
          [] c = "Y" -> "y"
          [] c = "Z" -> "z"]

\* str.lower()
Lower(name) ==
    [i \in 1..Len(name) |->
        IF name[i] \in DOMAIN UpperToLower THEN UpperToLower[name[i]] ELSE name[i]]

RECURSIVE SplitDots(_, _)
\* str.split('.'): cur is the segment being read
SplitDots(name, cur) ==
    IF name = <<>> THEN <<cur>>
    ELSE IF Head(name) = "." THEN <<cur>> \o SplitDots(Tail(name), <<>>)
    ELSE SplitDots(Tail(name), Append(cur, Head(name)))

\* module in part
Contains(part, module) ==
    \E i \in 1..(Len(part) - Len(module) + 1) :
        SubSeq(part, i, i + Len(module) - 1) = module

\* CriticalityService.__init__ defaults, in dict insertion order
critical_modules ==
    <<<<<<"a", "u", "t", "h">>, "high">>,
       <<<<"a", "u", "t", "h", "e", "n", "t", "i", "c", "a", "t", "i", "o", "n">>, "high">>,
       <<<<"a", "u", "t", "h", "o", "r", "i", "z", "a", "t", "i", "o", "n">>, "high">>,
       <<<<"s", "e", "c", "u", "r", "i", "t", "y">>, "high">>,
       <<<<"p", "a", "y", "m", "e", "n", "t">>, "high">>,
       <<<<"b", "i", "l", "l", "i", "n", "g">>, "high">>,
       <<<<"t", "r", "a", "n", "s", "a", "c", "t", "i", "o", "n">>, "high">>,
       <<<<"d", "a", "t", "a", "b", "a", "s", "e">>, "medium">>,
       <<<<"d", "b">>, "medium">>,
       <<<<"p", "e", "r", "s", "i", "s", "t", "e", "n", "c", "e">>, "medium">>,
       <<<<"a", "p", "i">>, "medium">>,
       <<<<"c", "o", "n", "t", "r", "o", "l", "l", "e", "r">>, "medium">>,
       <<<<"s", "e", "r", "v", "i", "c", "e">>, "medium">>,
       <<<<"u", "t", "i", "l", "s">>, "low">>,
       <<<<"u", "t", "i", "l">>, "low">>,
       <<<<"h", "e", "l", "p", "e", "r">>, "low">>,
       <<<<"h", "e", "l", "p", "e", "r", "s">>, "low">>,
       <<<<"c", "o", "m", "m", "o", "n">>, "low">>,
       <<<<"s", "h", "a", "r", "e", "d">>, "low">>>>

\* weights in tenths
criticality_weights == [high |-> 15, medium |-> 12, low |-> 10]

\* CriticalityService.__init__: `arg or {defaults}`; an argument is None or
\* a map, and an empty map is falsy
CriticalityService(modules, weights) ==
    [critical_modules |->
        IF IsNone(modules) \/ Val(modules) = <<>> THEN critical_modules
        ELSE Val(modules),
     criticality_weights |->
        IF IsNone(weights) \/ DOMAIN Val(weights) = {} THEN criticality_weights
        ELSE Val(weights)]

RECURSIVE get_module_criticality_modules(_, _, _)
\* for module, criticality in self.critical_modules.items(): from entry m on
get_module_criticality_modules(modules, part, m) ==
    IF m > Len(modules) THEN None
    ELSE IF Contains(part, modules[m][1]) THEN Some(modules[m][2])
    ELSE get_module_criticality_modules(modules, part, m + 1)

RECURSIVE get_module_criticality_parts(_, _, _)
\* for part in parts: from part p on
get_module_criticality_parts(modules, parts, p) ==
    IF p > Len(parts) THEN None
    ELSE LET hit == get_module_criticality_modules(modules, parts[p], 1)
         IN  IF ~IsNone(hit) THEN hit
             ELSE get_module_criticality_parts(modules, parts, p + 1)

\* variant: the loops exchanged, the first keyword of the map found in any
\* segment
get_module_criticality_module_major(self, class_name) ==
    IF class_name = <<>> THEN "low"
    ELSE LET parts == SplitDots(Lower(class_name), <<>>)
             modules == self.critical_modules
             hits == {m \in DOMAIN modules :
                        \E p \in DOMAIN parts : Contains(parts[p], modules[m][1])}
         IN  IF hits = {} THEN "low"
             ELSE modules[CHOOSE m \in hits : \A n \in hits : m <= n][2]

get_module_criticality(self, class_name) ==
    IF class_name = <<>> THEN "low"
    ELSE LET parts == SplitDots(Lower(class_name), <<>>)
             hit == get_module_criticality_parts(self.critical_modules, parts, 1)
         IN  IF ~IsNone(hit) THEN Val(hit)
             ELSE LET class_simple == parts[Len(parts)]
                      again == get_module_criticality_modules(self.critical_modules,
                                                              class_simple, 1)
                  IN  IF ~IsNone(again) THEN Val(again) ELSE "low"

\* self.criticality_weights.get(criticality, 1.0)
apply_criticality_weight(self, effort_aware_score, criticality) ==
    LET weight == IF criticality \in DOMAIN self.criticality_weights
                  THEN self.criticality_weights[criticality] ELSE 10
    IN  RoundHalfEven(effort_aware_score * weight, 10)

\* result item: {**cls, 'module_criticality': ..., 'effort_aware_score': ...};
\* a new list of new items, classes and its items are only read
enrich_with_criticality(self, classes) ==
    [i \in 1..Len(classes) |->
        LET cls == classes[i]
            criticality == get_module_criticality(self, cls.class_name)
        IN  [f \in DOMAIN cls \cup {"module_criticality", "effort_aware_score"} |->
                CASE f = "module_criticality" -> criticality
                  [] f = "effort_aware_score" ->
                        apply_criticality_weight(self, cls.effort_aware_score,
                                                 criticality)
                  [] OTHER -> cls[f]]]

\* d[key] = value on an insertion-ordered dict: an existing key keeps its
\* place, a new key goes last
DictSet(d, key, value) ==
    IF \E i \in DOMAIN d : d[i][1] = key
    THEN [i \in DOMAIN d |-> IF d[i][1] = key THEN <<key, value>> ELSE d[i]]
    ELSE Append(d, <<key, value>>)

\* variant: no check of criticality before the assignment
update_critical_modules_unchecked(self, module, criticality) ==
    [raised |-> FALSE,
     self |-> [self EXCEPT !.critical_modules =
                              DictSet(@, Lower(module), criticality)]]

\* raises ValueError before any assignment when criticality is no tier
update_critical_modules(self, module, criticality) ==
    IF criticality \notin Tiers THEN [raised |-> TRUE, self |-> self]
    ELSE [raised |-> FALSE,
          self |-> [self EXCEPT !.critical_modules =
                                   DictSet(@, Lower(module), criticality)]]

\* weight in tenths
update_criticality_weight(self, criticality, weight) ==
    IF criticality \notin Tiers THEN [raised |-> TRUE, self |-> self]
    ELSE IF weight <= 0 THEN [raised |-> TRUE, self |-> self]
    ELSE [raised |-> FALSE,
          self |-> [self EXCEPT !.criticality_weights =
                      [t \in DOMAIN @ \cup {criticality} |->
                          IF t = criticality THEN weight ELSE @[t]]]]


\* --------------------------------------------------------- MetricsService
\* risk_score and effort_hours in hundredths; a metric is None or Some(v)
\* with v in ten-thousandths (round(x, 4))

\* defect_map.get(class_name, False) where defect_map is the dict
\* comprehension over actual_defects: the last entry of a name wins
defect_map_get(actual_defects, class_name) ==
    LET entries == {i \in DOMAIN actual_defects :
                       actual_defects[i].class_name = class_name}
    IN  IF entries = {} THEN FALSE
        ELSE actual_defects[CHOOSE i \in entries : \A j \in entries : j <= i].has_defect

\* sum(1 for d in actual_defects if d.get('has_defect', False))
total_defects(actual_defects) ==
    Cardinality({i \in DOMAIN actual_defects : actual_defects[i].has_defect})

RECURSIVE popt20_risk_loop_inverted(_, _, _, _)
\* variant: proportion = effort / remaining_effort
popt20_risk_loop_inverted(plan, total_effort, cumulative_effort, cumulative_risk) ==
    IF plan = <<>> THEN [num |-> cumulative_risk, den |-> 1]
    ELSE LET effort == Head(plan).effort_hours
             risk == Head(plan).risk_score
             remaining5 == total_effort - 5 * cumulative_effort
         IN  IF 5 * (cumulative_effort + effort) <= total_effort
             THEN popt20_risk_loop_inverted(Tail(plan), total_effort,
                                   cumulative_effort + effort, cumulative_risk + risk)
             ELSE IF remaining5 > 0 /\ effort > 0
                  THEN [num |-> cumulative_risk * remaining5 + risk * 5 * effort,
                        den |-> remaining5]
                  ELSE [num |-> cumulative_risk, den |-> 1]

RECURSIVE popt20_risk_loop(_, _, _, _)
\* the loop of _calculate_popt20_with_risk_scores; target_effort is
\* total_effort / 5, so `cumulative_effort + effort <= target_effort` is
\* compared as 5 * (...) <= total_effort.  Returns cumulative_risk as the
\* fraction num / den
popt20_risk_loop(plan, total_effort, cumulative_effort, cumulative_risk) ==
    IF plan = <<>> THEN [num |-> cumulative_risk, den |-> 1]
    ELSE LET effort == Head(plan).effort_hours
             risk == Head(plan).risk_score
             \* 5 * remaining_effort
             remaining5 == total_effort - 5 * cumulative_effort
         IN  IF 5 * (cumulative_effort + effort) <= total_effort
             THEN popt20_risk_loop(Tail(plan), total_effort,
                                   cumulative_effort + effort, cumulative_risk + risk)
             ELSE IF remaining5 > 0 /\ effort > 0
                  \* cumulative_risk += risk * remaining_effort / effort; break
                  THEN [num |-> cumulative_risk * 5 * effort + risk * remaining5,
                        den |-> 5 * effort]
                  ELSE [num |-> cumulative_risk, den |-> 1]

RECURSIVE SumField(_, _)
\* sum(cls.get(field, 0.0) for cls in plan)
SumField(plan, field) ==
    IF plan = <<>> THEN 0 ELSE Head(plan)[field] + SumField(Tail(plan), field)

calculate_popt20_with_risk_scores(prioritized_classes, total_effort) ==
    LET total_risk == SumField(prioritized_classes, "risk_score")
        cumulative == popt20_risk_loop(prioritized_classes, total_effort, 0, 0)
    IN  IF total_risk = 0 THEN None
        ELSE Some(RoundHalfEven(10000 * cumulative.num, cumulative.den * total_risk))

RECURSIVE popt20_defects_loop(_, _, _, _, _)
\* the loop of _calculate_popt20_with_defects: the item that does not fit
\* ends the walk and adds nothing
popt20_defects_loop(plan, actual_defects, total_effort, cumulative_effort, defects_found) ==
    IF plan = <<>> THEN defects_found
    ELSE LET effort == Head(plan).effort_hours IN
         IF 5 * (cumulative_effort + effort) <= total_effort
         THEN popt20_defects_loop(Tail(plan), actual_defects, total_effort,
                  cumulative_effort + effort,
                  IF defect_map_get(actual_defects, Head(plan).class_name)
                  THEN defects_found + 1 ELSE defects_found)
         ELSE defects_found

calculate_popt20_with_defects(prioritized_classes, actual_defects, total_effort) ==
    IF total_defects(actual_defects) = 0 THEN None
    ELSE Some(RoundHalfEven(
                10000 * popt20_defects_loop(prioritized_classes, actual_defects,
                                            total_effort, 0, 0),
                total_defects(actual_defects)))

\* actual_defects is None or Some(list)
calculate_popt20(prioritized_classes, actual_defects) ==
    IF prioritized_classes = <<>> THEN None
    ELSE LET total_effort == SumField(prioritized_classes, "effort_hours") IN
         IF total_effort = 0 THEN None
         ELSE IF IsNone(actual_defects)
         THEN calculate_popt20_with_risk_scores(prioritized_classes, total_effort)
         ELSE calculate_popt20_with_defects(prioritized_classes, Val(actual_defects),
                                            total_effort)

\* max(1, int(len(prioritized_classes) * 0.2))
recall_top_k(n) == Max(1, n \div 5)

calculate_recall_top20(prioritized_classes, actual_defects) ==
    IF prioritized_classes = <<>> THEN None
    ELSE LET top_k == recall_top_k(Len(prioritized_classes))
             top_classes == SubSeq(prioritized_classes, 1, top_k)
         IN  IF IsNone(actual_defects)
             THEN LET total_risk == SumField(prioritized_classes, "risk_score")
                      top_risk == SumField(top_classes, "risk_score")
                  IN  IF total_risk > 0
                      THEN Some(RoundHalfEven(10000 * top_risk, total_risk))
                      ELSE None
             ELSE LET defects == Val(actual_defects)
                      top_defects ==
                          Cardinality({i \in DOMAIN top_classes :
                              defect_map_get(defects, top_classes[i].class_name)})
                  IN  IF total_defects(defects) = 0 THEN None
                      ELSE Some(RoundHalfEven(10000 * top_defects,
                                              total_defects(defects)))

\* variant: the gain is not floored at 0
calculate_coverage_gain_unfloored(prioritized_classes, baseline_coverage) ==
    IF prioritized_classes = <<>> THEN 0
    ELSE LET total_risk == SumField(prioritized_classes, "risk_score") IN
         IF total_risk = 0 THEN 0
         ELSE IF ~IsNone(baseline_coverage)
              THEN 100 * (Min(RiskScale, total_risk) - Val(baseline_coverage))
              ELSE 100 * Min(RiskScale, total_risk)

\* baseline_coverage is None or Some(hundredths); result in ten-thousandths
calculate_coverage_gain(prioritized_classes, baseline_coverage) ==
    IF prioritized_classes = <<>> THEN 0
    ELSE LET total_risk == SumField(prioritized_classes, "risk_score")
             coverage == Min(RiskScale, total_risk)
         IN  IF total_risk = 0 THEN 0
             ELSE IF ~IsNone(baseline_coverage)
                  THEN 100 * Max(0, coverage - Val(baseline_coverage))
                  ELSE 100 * coverage

\* ------------------------------------------------------------ call inputs
CandidateLists == SeqsUpTo(CandidateItems, MaxLen)

MultiBudgetValues == {None, Some(0), Some(200)}
MultiCoverageValues == {None, Some(50), Some(100)}
MultiMaxValues == {None, Some(0), Some(1)}

\* the arguments a caller passes to each strategy
ArgsFor(strategy) ==
    CASE strategy = "top_k_coverage" ->
            {[NoArgs EXCEPT !.k = Some(k)] : k \in KValues}
      [] strategy = "budget_optimization" ->
            {[NoArgs EXCEPT !.budget_hours = Some(b)] : b \in BudgetValues}
      [] strategy = "coverage_optimization" ->
            {[NoArgs EXCEPT !.target_coverage = Some(c)] : c \in CoverageValues}
      [] strategy = "multi_objective" ->
            {[NoArgs EXCEPT !.budget_hours = b, !.target_coverage = c,
                            !.max_classes = m] :
                b \in MultiBudgetValues, c \in MultiCoverageValues,
                m \in MultiMaxValues}
      [] OTHER -> {NoArgs}

\* predictions the provider can send
ClassNames ==
    {<<"a", ".", "A", "u", "t", "h", ".", "U", "s", "e", "r">>,
     <<"a", ".", "d", "b", ".", "R", "e", "p", "o">>,
     <<"a", ".", "x", ".", "T", "o", "o", "l">>}

Predictions ==
    [class_name : ClassNames, risk_score : RiskValues, loc : {0, 200},
     cyclomatic_complexity : {15}, num_methods : {None},
     num_dependencies : {Some(2)}]

PredictionLists ==
    {l \in SeqsUpTo(Predictions, MaxLen) :
        \A i, j \in DOMAIN l : i # j => l[i].class_name # l[j].class_name}

ProviderOutcomes == {"ok", "unreachable", "http_error", "malformed"}

\* strategy_kwargs of prioritize: constraints.get(name, default)
StrategyKwargs(strategy, constraints) ==
    CASE strategy = "top_k_coverage" ->
            [NoArgs EXCEPT !.k = IF IsNone(constraints.k)
                                 THEN Some(DefaultK) ELSE constraints.k]
      [] strategy = "budget_optimization" ->
            [NoArgs EXCEPT !.budget_hours =
                IF IsNone(constraints.budget_hours)
                THEN Some(DefaultBudget) ELSE constraints.budget_hours]
      [] strategy = "coverage_optimization" ->
            [NoArgs EXCEPT !.target_coverage =
                IF IsNone(constraints.target_coverage)
                THEN Some(DefaultCoverage) ELSE constraints.target_coverage]
      [] strategy = "multi_objective" ->
            [NoArgs EXCEPT !.budget_hours = constraints.budget_hours,
                           !.target_coverage = constraints.target_coverage,
                           !.max_classes = constraints.max_classes]
      [] OTHER -> NoArgs

\* MLServiceClient.get_predictions: what the caller receives
\*   "ok"          the list sent by the provider
\*   "unreachable" / "http_error"  httpx.HTTPError caught, [] returned
\*   "malformed"   response.json() raises ValueError, which is not caught
get_predictions(outcome, sent) ==
    CASE outcome = "ok" -> [raised |-> FALSE, predictions |-> sent]
      [] outcome \in {"unreachable", "http_error"} ->
            [raised |-> FALSE, predictions |-> <<>>]
      [] OTHER -> [raised |-> TRUE, predictions |-> <<>>]

\* ----------------------------------------------------------------- state
VARIABLES
    pc,          \* "idle", "calculating", "enriching" (inside the two loops of
                 \* prioritize), "solving" (inside solver.Solve()), "done"
    entry,       \* "none", "strategy" (a strategy method called), "api" (prioritize)
    strategy,    \* name of the running strategy
    classes,     \* the candidate list given to the strategy
    args,        \* k, budget_hours, target_coverage, max_classes
    solver,      \* the pywraplp solver object of the running optimize_* call
    path,        \* "none", "direct", "exact", "greedy"
    selected,    \* list returned by optimize_*
    result,      \* list returned by the strategy
    raised,      \* an exception left the optimizer / strategy
    calls,       \* whether sorted() / the optimization service were invoked
    provider,    \* outcome of the HTTP call to the predictions provider
    predictions, \* list prioritize received from get_predictions
    classes_with_effort, \* list prioritize got from calculate_for_classes
    response,    \* HTTP response of prioritize
    effort_calculator,   \* the EffortCalculator object (its four settings)
    criticality_service, \* the CriticalityService object (its two maps)
    last         \* the last call made on one of the two service objects

vars == <<pc, entry, strategy, classes, args, solver, path, selected, result,
          raised, calls, provider, predictions, classes_with_effort, response,
          effort_calculator, criticality_service, last>>

request == <<pc, entry, strategy, classes, args, solver, path, selected,
             result, raised, calls, provider, predictions, classes_with_effort,
             response>>
services == <<effort_calculator, criticality_service, last>>

NoSolver == [state |-> "none", time_limit |-> None, status |-> "none"]
NoCalls == [sort |-> FALSE, optimizer |-> FALSE]
NoResponse == [status |-> 0, plan |-> <<>>, total_effort_hours |-> 0]
NoCall == [op |-> "none", args |-> <<>>, raised |-> FALSE, result |-> <<>>]

\* no request is running
NoRequest ==
    /\ pc = "idle"
    /\ entry = "none"
    /\ strategy = "none"
    /\ classes = <<>>
    /\ args = NoArgs
    /\ solver = NoSolver
    /\ path = "none"
    /\ selected = <<>>
    /\ result = <<>>
    /\ raised = FALSE
    /\ calls = NoCalls
    /\ provider = "none"
    /\ predictions = <<>>
    /\ classes_with_effort = <<>>
    /\ response = NoResponse

\* api/prioritization.py builds both services with their defaults
Init ==
    /\ effort_calculator = EffortCalculator(None, None, None, None)
    /\ criticality_service = CriticalityService(None, None)
    /\ last = NoCall
    /\ pc = "idle"
    /\ entry = "none"
    /\ strategy = "none"
    /\ classes = <<>>
    /\ args = NoArgs
    /\ solver = NoSolver
    /\ path = "none"
    /\ selected = <<>>
    /\ result = <<>>
    /\ raised = FALSE
    /\ calls = NoCalls
    /\ provider = "none"
    /\ predictions = <<>>
    /\ classes_with_effort = <<>>
    /\ response = NoResponse

\* variant: enumerate without start=1
PrioritizedPlan_zero_based(cls, res, strat) ==
    [idx \in 1..Len(res) |->
        [class_name |-> cls[res[idx]].class_name,
         priority |-> idx - 1,
         risk_score |-> cls[res[idx]].risk_score,
         effort_hours |-> cls[res[idx]].effort_hours,
         effort_aware_score |-> cls[res[idx]].effort_aware_score,
         module_criticality |-> cls[res[idx]].module_criticality,
         strategy |-> strat]]

\* prioritized_plan of prioritize: priority = 1-based position
PrioritizedPlan(cls, res, strat) ==
    [idx \in 1..Len(res) |->
        [class_name |-> cls[res[idx]].class_name,
         priority |-> idx,
         risk_score |-> cls[res[idx]].risk_score,
         effort_hours |-> cls[res[idx]].effort_hours,
         effort_aware_score |-> cls[res[idx]].effort_aware_score,
         module_criticality |-> cls[res[idx]].module_criticality,
         strategy |-> strat]]

\* the response of prioritize once the strategy returned (or raised):
\* `except Exception` turns any exception into a 500
ResponseOf(e, cls, res, exc, strat) ==
    IF e # "api" THEN NoResponse
    ELSE IF exc THEN [status |-> 500, plan |-> <<>>, total_effort_hours |-> 0]
    ELSE [status |-> 200, plan |-> PrioritizedPlan(cls, res, strat),
          total_effort_hours |-> SumOver(cls, res, "effort_hours")]

\* the strategy returns res (or raises) and, under prioritize, the response
\* is assembled
Complete(e, strat, cls, pathv, sel, res, exc) ==
    /\ pc' = "done"
    /\ path' = pathv
    /\ selected' = sel
    /\ result' = res
    /\ raised' = exc
    /\ response' = ResponseOf(e, cls, res, exc, strat)

\* variant: no `if not predictions` check, an empty list gives an empty plan
EarlyResponse_empty_plan(got) ==
    [status |-> IF got.raised THEN 500 ELSE 200, plan |-> <<>>,
     total_effort_hours |-> 0]

\* prioritize ends before the enrichment: get_predictions raised (500), or
\* `if not predictions` raised the 404 HTTPException
EarlyResponse(got) ==
    [status |-> IF got.raised THEN 500 ELSE 404, plan |-> <<>>,
     total_effort_hours |-> 0]

\* a strategy method runs on cls with arguments a, up to its return or up to
\* the call of solver.Solve()
RunStrategy(e, strat, cls, a) ==
    /\ entry' = e
    /\ strategy' = strat
    /\ classes' = cls
    /\ args' = a
    /\ IF ~ReachesOptimizer(strat, cls, a)
       THEN /\ solver' = NoSolver
            /\ calls' = [sort |-> SortsWithoutOptimizer(strat, cls),
                         optimizer |-> FALSE]
            /\ Complete(e, strat, cls, "direct", <<>>,
                        WithoutOptimizer(strat, cls, a), FALSE)
       ELSE \E available \in BOOLEAN :
              IF available
              THEN \* pywraplp.Solver.CreateSolver('SCIP') gave a solver;
                   \* the code sets no time limit on it
                   /\ solver' = [state |-> "created", time_limit |-> None,
                                 status |-> "none"]
                   /\ calls' = [sort |-> FALSE, optimizer |-> TRUE]
                   /\ pc' = "solving"
                   /\ UNCHANGED <<path, selected, result, raised, response>>
              ELSE \* CreateSolver returned None: greedy fallback
                   /\ solver' = [state |-> "unavailable", time_limit |-> None,
                                 status |-> "none"]
                   /\ calls' = [sort |-> TRUE, optimizer |-> TRUE]
                   /\ LET sel == GreedyOf(strat, cls, a)
                      IN  Complete(e, strat, cls, "greedy", sel,
                                   SortByScore(cls, sel), FALSE)

\* the names apply_strategy can be called with: the five it knows and one
\* it does not
StrategyNames == Strategies \cup {"unrecognized"}

\* a caller invokes apply_strategy, or the strategy method of that name
CallStrategy ==
    /\ pc = "idle"
    /\ \E strat \in StrategyNames, cls \in CandidateLists :
         \E a \in ArgsFor(strat) :
            RunStrategy("strategy", strat, cls, a)
    /\ UNCHANGED <<provider, predictions, classes_with_effort>>
    /\ UNCHANGED services

\* POST /prioritize
Prioritize ==
    /\ pc = "idle"
    /\ \E outcome \in ProviderOutcomes, sent \in PredictionLists :
         LET got == get_predictions(outcome, sent)
             early == got.raised \/ got.predictions = <<>>
             with_effort ==
                 IF early THEN <<>>
                 ELSE calculate_for_classes(effort_calculator, got.predictions)
         IN  /\ outcome # "ok" => sent = <<>>
             /\ provider' = outcome
             /\ predictions' = got.predictions
             /\ classes_with_effort' = with_effort
             /\ \E classes_with_criticality \in
                       {enrich_with_criticality(criticality_service, with_effort)},
                   strat \in Strategies :
                  \E constraints \in ArgsFor(strat) \cup {NoArgs} :
                     IF early
                     THEN \* no strategy runs
                          /\ entry' = "api"
                          /\ strategy' = "none"
                          /\ classes' = <<>>
                          /\ args' = NoArgs
                          /\ solver' = NoSolver
                          /\ calls' = NoCalls
                          /\ pc' = "done"
                          /\ path' = "none"
                          /\ selected' = <<>>
                          /\ result' = <<>>
                          /\ raised' = got.raised
                          /\ response' = EarlyResponse(got)
                     ELSE RunStrategy("api", strat, classes_with_criticality,
                                      StrategyKwargs(strat, constraints))
    /\ UNCHANGED services

\* solver.Solve() returns a status
Solve ==
    /\ pc = "solving"
    /\ \E o \in SolveOutcomes(classes, ProgramOf(strategy, classes, args)) :
         /\ solver' = [solver EXCEPT !.state = "solved", !.status = o.status]
         /\ calls' = [calls EXCEPT !.sort = TRUE]
         /\ IF o.status \in {"OPTIMAL", "FEASIBLE"}
            THEN Complete(entry, strategy, classes, "exact", AscSeq(o.x),
                          SortByScore(classes, AscSeq(o.x)), FALSE)
            ELSE LET sel == GreedyOf(strategy, classes, args)
                 IN  Complete(entry, strategy, classes, "greedy", sel,
                              SortByScore(classes, sel), FALSE)
    /\ UNCHANGED <<entry, strategy, classes, args, provider, predictions,
                   classes_with_effort>>
    /\ UNCHANGED services

\* the solver raises inside optimize_*: no handler in the optimization
\* service nor in the strategies
SolveRaises ==
    /\ pc = "solving"
    /\ solver' = [solver EXCEPT !.state = "raised"]
    /\ Complete(entry, strategy, classes, "exact", <<>>, <<>>, TRUE)
    /\ UNCHANGED <<entry, strategy, classes, args, calls, provider, predictions,
                   classes_with_effort>>
    /\ UNCHANGED services

\* the caller takes the result; the next call starts from scratch
Return ==
    /\ pc = "done"
    /\ pc' = "idle"
    /\ entry' = "none"
    /\ strategy' = "none"
    /\ classes' = <<>>
    /\ args' = NoArgs
    /\ solver' = NoSolver
    /\ path' = "none"
    /\ selected' = <<>>
    /\ result' = <<>>
    /\ raised' = FALSE
    /\ calls' = NoCalls
    /\ provider' = "none"
    /\ predictions' = <<>>
    /\ classes_with_effort' = <<>>
    /\ response' = NoResponse
    /\ UNCHANGED services

Next ==
    \/ CallStrategy
    \/ Prioritize
    \/ Solve
    \/ SolveRaises
    \/ Return

Spec == Init /\ [][Next]_vars

\* ------------------------------------------- calls on CriticalityService
\* maps given to the constructor: none, an empty one, the one of
\* test_custom_critical_modules, and one whose tier is no tier
CustomModules ==
    {None,
     Some(<<>>),
     Some(<<<<<<"c", "u", "s", "t", "o", "m">>, "high">>,
            <<<<"s", "p", "e", "c", "i", "a", "l">>, "medium">>>>),
     Some(<<<<<<"x">>, "critical">>>>)}

CustomWeights == {None, Some([high |-> 20, medium |-> 12, low |-> 10])}

ModuleArgs == {<<"A", "u", "t", "h">>, <<"x">>}
TierArgs == {"high", "low", "critical"}
WeightTierArgs == {"high", "critical"}
WeightArgs == {-10, 0, 20}

QueryNames ==
    {<<>>,
     <<"d", "b", ".", "A", "u", "t", "h">>,
     <<"A", "u", "t", "h", "D", "b">>,
     <<"a", ".", "x", ".", "T", "o", "o", "l">>,
     <<"c", "o", "m", ".", "C", "u", "s", "t", "o", "m", ".", "S", "p", "e", "c", "i", "a", "l">>,
     <<"o", "r", "g", ".", ".", "m", "i", "s", "c">>}

\* predictions as the provider sends them, one per class name
EnrichPredictions ==
    [class_name : ClassNames, risk_score : {50}, loc : {200},
     cyclomatic_complexity : {15}, num_methods : {None},
     num_dependencies : {Some(2)}]

EnrichPredictionLists ==
    {l \in SeqsUpTo(EnrichPredictions, MaxLen) :
        \A i, j \in DOMAIN l : i # j => l[i].class_name # l[j].class_name}

\* classes_with_effort of prioritize
EnrichLists ==
    {calculate_for_classes(effort_calculator, l) : l \in EnrichPredictionLists}

CriticalityInit ==
    /\ NoRequest
    /\ effort_calculator = EffortCalculator(None, None, None, None)
    /\ \E modules \in CustomModules, weights \in CustomWeights :
          criticality_service = CriticalityService(modules, weights)
    /\ last = NoCall

UpdateCriticalModules ==
    /\ \E module \in ModuleArgs, criticality \in TierArgs :
          LET out == update_critical_modules(criticality_service, module, criticality)
          IN  /\ criticality_service' = out.self
              /\ last' = [op |-> "update_critical_modules",
                          args |-> [module |-> module, criticality |-> criticality],
                          raised |-> out.raised, result |-> <<>>]
    /\ UNCHANGED effort_calculator
    /\ UNCHANGED request

UpdateCriticalityWeight ==
    /\ \E criticality \in WeightTierArgs, weight \in WeightArgs :
          LET out == update_criticality_weight(criticality_service, criticality, weight)
          IN  /\ criticality_service' = out.self
              /\ last' = [op |-> "update_criticality_weight",
                          args |-> [criticality |-> criticality, weight |-> weight],
                          raised |-> out.raised, result |-> <<>>]
    /\ UNCHANGED effort_calculator
    /\ UNCHANGED request

GetModuleCriticality ==
    /\ \E class_name \in QueryNames :
          last' = [op |-> "get_module_criticality",
                   args |-> [class_name |-> class_name],
                   raised |-> FALSE,
                   result |-> get_module_criticality(criticality_service, class_name)]
    /\ UNCHANGED <<effort_calculator, criticality_service>>
    /\ UNCHANGED request

EnrichWithCriticality ==
    /\ \E cls \in EnrichLists :
          last' = [op |-> "enrich_with_criticality",
                   args |-> [classes |-> cls],
                   raised |-> FALSE,
                   result |-> enrich_with_criticality(criticality_service, cls)]
    /\ UNCHANGED <<effort_calculator, criticality_service>>
    /\ UNCHANGED request

\* step 2 of prioritize, whose result step 3 enriches
CalculateWithEffort ==
    /\ \E preds \in EnrichPredictionLists :
          last' = [op |-> "calculate_for_classes",
                   args |-> [predictions |-> preds],
                   raised |-> FALSE,
                   result |-> calculate_for_classes(effort_calculator, preds)]
    /\ UNCHANGED <<effort_calculator, criticality_service>>
    /\ UNCHANGED request

CriticalityNext ==
    \/ UpdateCriticalModules
    \/ UpdateCriticalityWeight
    \/ GetModuleCriticality
    \/ CalculateWithEffort
    \/ EnrichWithCriticality

CriticalitySpec == CriticalityInit /\ [][CriticalityNext]_vars

\* --------------------------------------------- calls on EffortCalculator
LocPerHourArgs == {None, Some(100)}
ComplexityFactorArgs == {None, Some(40)}
MinEffortArgs == {None, Some(100), Some(5000)}
MaxEffortArgs == {None, Some(1000)}

LocValues == {0, 10, 100, 200, 5000}
ComplexityValues == {5, 15, 50}
NumMethodsValues == {None, Some(5)}
NumDependenciesValues == {None, Some(3)}
EffortArgValues == {-100, 0, 5, 400}
RiskArgValues == {0, 50, 75}

EffortPredictions ==
    [class_name : {<<"a", ".", "x", ".", "T", "o", "o", "l">>},
     risk_score : {50}, loc : {0, 5000}, cyclomatic_complexity : {15},
     num_methods : {None}, num_dependencies : {Some(2)}]

EffortInit ==
    /\ NoRequest
    /\ effort_calculator = EffortCalculator(None, None, None, None)
    /\ criticality_service = CriticalityService(None, None)
    /\ last = NoCall

UpdateConfig ==
    /\ \E lph \in LocPerHourArgs, cf \in ComplexityFactorArgs,
          mn \in MinEffortArgs, mx \in MaxEffortArgs :
          /\ effort_calculator' = update_config(effort_calculator, lph, cf, mn, mx)
          /\ last' = [op |-> "update_config",
                      args |-> [loc_per_hour |-> lph, complexity_factor |-> cf,
                                min_effort_hours |-> mn, max_effort_hours |-> mx],
                      raised |-> FALSE, result |-> <<>>]
    /\ UNCHANGED criticality_service
    /\ UNCHANGED request

EstimateEffortHours ==
    /\ \E loc \in LocValues, complexity \in ComplexityValues,
          num_methods \in NumMethodsValues,
          num_dependencies \in NumDependenciesValues :
          last' = [op |-> "estimate_effort_hours",
                   args |-> [loc |-> loc, complexity |-> complexity,
                             num_methods |-> num_methods,
                             num_dependencies |-> num_dependencies],
                   raised |-> FALSE,
                   result |-> estimate_effort_hours(effort_calculator, loc, complexity,
                                                    num_methods, num_dependencies)]
    /\ UNCHANGED <<effort_calculator, criticality_service>>
    /\ UNCHANGED request

CalculateEffortAwareScore ==
    /\ \E risk_score \in RiskArgValues, effort_hours \in EffortArgValues :
          last' = [op |-> "calculate_effort_aware_score",
                   args |-> [risk_score |-> risk_score, effort_hours |-> effort_hours],
                   raised |-> FALSE,
                   result |-> calculate_effort_aware_score(risk_score, effort_hours)]
    /\ UNCHANGED <<effort_calculator, criticality_service>>
    /\ UNCHANGED request

CalculateForClasses ==
    /\ \E preds \in SeqsUpTo(EffortPredictions, MaxLen) :
          last' = [op |-> "calculate_for_classes",
                   args |-> [predictions |-> preds],
                   raised |-> FALSE,
                   result |-> calculate_for_classes(effort_calculator, preds)]
    /\ UNCHANGED <<effort_calculator, criticality_service>>
    /\ UNCHANGED request

EffortNext ==
    \/ UpdateConfig
    \/ EstimateEffortHours
    \/ CalculateEffortAwareScore
    \/ CalculateForClasses

EffortSpec == EffortInit /\ [][EffortNext]_vars

\* ----------------------------------------------- calls on MetricsService
MaxPlan == 8

PlanNames ==
    <<<<"A">>, <<"B">>, <<"C">>, <<"D">>, <<"E">>, <<"F">>, <<"G">>, <<"H">>,
      <<"I">>, <<"J">>>>

\* <<risk_score, effort_hours>> of a plan item
MetricValues == {0, 50, 100} \X {0, 10, 30}

\* a plan with unique class names
NamedPlan(l) ==
    [i \in DOMAIN l |->
        [class_name |-> PlanNames[i], risk_score |-> l[i][1],
         effort_hours |-> l[i][2]]]

\* plans of n items of one hour whose only risky item is the p-th
LongPlans ==
    {NamedPlan([i \in 1..n |-> <<IF i = p THEN 50 ELSE 0, 10>>]) :
        n \in (MaxLen + 1)..MaxPlan, p \in 1..MaxPlan}

MetricsPlans ==
    {NamedPlan(l) : l \in SeqsUpTo(MetricValues, MaxLen)} \cup LongPlans

Defect(name, flag) == [class_name |-> name, has_defect |-> flag]

\* actual_defects: absent, empty, about classes of the plan, about a class
\* absent from the plan, and with a class listed twice
DefectLists ==
    {None,
     Some(<<>>),
     Some(<<Defect(<<"A">>, TRUE)>>),
     Some(<<Defect(<<"A">>, FALSE)>>),
     Some(<<Defect(<<"B">>, TRUE)>>),
     Some(<<Defect(<<"A">>, TRUE), Defect(<<"B">>, TRUE)>>),
     Some(<<Defect(<<"Z">>, TRUE)>>),
     Some(<<Defect(<<"A">>, TRUE), Defect(<<"Z">>, TRUE)>>),
     Some(<<Defect(<<"A">>, TRUE), Defect(<<"A">>, FALSE)>>)}

BaselineValues == {None, Some(0), Some(30), Some(100)}

\* the plan handed to the metrics service is held in classes
MetricsInit ==
    /\ pc = "idle"
    /\ entry = "none"
    /\ strategy = "none"
    /\ classes \in MetricsPlans
    /\ args = NoArgs
    /\ solver = NoSolver
    /\ path = "none"
    /\ selected = <<>>
    /\ result = <<>>
    /\ raised = FALSE
    /\ calls = NoCalls
    /\ provider = "none"
    /\ predictions = <<>>
    /\ classes_with_effort = <<>>
    /\ response = NoResponse
    /\ effort_calculator = EffortCalculator(None, None, None, None)
    /\ criticality_service = CriticalityService(None, None)
    /\ last = NoCall

CalculatePopt20 ==
    /\ \E actual_defects \in DefectLists :
          last' = [op |-> "calculate_popt20",
                   args |-> [actual_defects |-> actual_defects],
                   raised |-> FALSE,
                   result |-> calculate_popt20(classes, actual_defects)]
    /\ UNCHANGED <<effort_calculator, criticality_service>>
    /\ UNCHANGED request

CalculateRecallTop20 ==
    /\ \E actual_defects \in DefectLists :
          last' = [op |-> "calculate_recall_top20",
                   args |-> [actual_defects |-> actual_defects],
                   raised |-> FALSE,
                   result |-> calculate_recall_top20(classes, actual_defects)]
    /\ UNCHANGED <<effort_calculator, criticality_service>>
    /\ UNCHANGED request

CalculateCoverageGain ==
    /\ \E baseline_coverage \in BaselineValues :
          last' = [op |-> "calculate_coverage_gain",
                   args |-> [baseline_coverage |-> baseline_coverage],
                   raised |-> FALSE,
                   result |-> calculate_coverage_gain(classes, baseline_coverage)]
    /\ UNCHANGED <<effort_calculator, criticality_service>>
    /\ UNCHANGED request

MetricsNext ==
    \/ CalculatePopt20
    \/ CalculateRecallTop20
    \/ CalculateCoverageGain

MetricsSpec == MetricsInit /\ [][MetricsNext]_vars

\* ------------------------------------------- calls of the greedy fallbacks
\* efforts below, at and above the 0.1 h floor of the ratio
GreedyItems ==
    [class_name : {<<>>}, risk_score : {50}, effort_hours : {0, 5, 20},
     effort_aware_score : {1000, 1500, 3000}, module_criticality : {"low"}]

GreedyItem(risk, effort, score) ==
    [class_name |-> <<>>, risk_score |-> risk, effort_hours |-> effort,
     effort_aware_score |-> score, module_criticality |-> "low"]

\* test_greedy_fallback_budget: efforts 4, 5, 1, 2 h
GreedyScenario ==
    <<GreedyItem(75, 400, 1875), GreedyItem(68, 500, 1360),
      GreedyItem(45, 100, 4500), GreedyItem(60, 200, 3000)>>

GreedyLists == SeqsUpTo(GreedyItems, MaxLen) \cup {GreedyScenario}

GreedyBudgetArgs ==
    {[NoArgs EXCEPT !.budget_hours = Some(b)] : b \in {0, 5, 20, 500}}

GreedyMultiArgs ==
    {[NoArgs EXCEPT !.budget_hours = b, !.target_coverage = c, !.max_classes = m] :
        b \in {None, Some(0), Some(20)}, c \in {None, Some(50)},
        m \in {None, Some(0), Some(1)}}

\* the arguments of one call of a greedy fallback
GreedyInit ==
    /\ pc = "idle"
    /\ entry = "none"
    /\ \/ strategy = "budget_optimization" /\ args \in GreedyBudgetArgs
       \/ strategy = "multi_objective" /\ args \in GreedyMultiArgs
    /\ classes \in GreedyLists
    /\ solver = NoSolver
    /\ path = "none"
    /\ selected = <<>>
    /\ result = <<>>
    /\ raised = FALSE
    /\ calls = NoCalls
    /\ provider = "none"
    /\ predictions = <<>>
    /\ classes_with_effort = <<>>
    /\ response = NoResponse
    /\ effort_calculator = EffortCalculator(None, None, None, None)
    /\ criticality_service = CriticalityService(None, None)
    /\ last = NoCall

GreedyBudgetSelection ==
    /\ pc = "idle"
    /\ strategy = "budget_optimization"
    /\ selected' = greedy_budget_selection(classes, Val(args.budget_hours))
    /\ path' = "greedy"
    /\ pc' = "done"
    /\ UNCHANGED <<entry, strategy, classes, args, solver, result, raised, calls,
                   provider, predictions, classes_with_effort, response>>
    /\ UNCHANGED services

GreedyMultiConstraint ==
    /\ pc = "idle"
    /\ strategy = "multi_objective"
    /\ selected' = greedy_multi_constraint(classes, args.budget_hours,
                                           args.target_coverage, args.max_classes)
    /\ path' = "greedy"
    /\ pc' = "done"
    /\ UNCHANGED <<entry, strategy, classes, args, solver, result, raised, calls,
                   provider, predictions, classes_with_effort, response>>
    /\ UNCHANGED services

GreedyNext ==
    \/ GreedyBudgetSelection
    \/ GreedyMultiConstraint

GreedySpec == GreedyInit /\ [][GreedyNext]_vars

\* ------------------------- prioritize while the shared services are updated
\* the module-level effort_calculator and criticality_service are used by
\* every request and carry no lock; an update made by another thread takes
\* effect between two iterations of the loops of calculate_for_classes and
\* enrich_with_criticality
ConcurrentPredictionLists ==
    {l \in PredictionLists :
        l # <<>> /\ \A i \in DOMAIN l : l[i].risk_score = 50 /\ l[i].loc = 200}

ConcurrentInit ==
    /\ NoRequest
    /\ effort_calculator = EffortCalculator(None, None, None, None)
    /\ criticality_service = CriticalityService(None, None)
    /\ last = NoCall

\* prioritize up to `if not predictions`: a non-empty list arrived
ReceivePredictions ==
    /\ pc = "idle"
    /\ \E sent \in ConcurrentPredictionLists :
          predictions' = get_predictions("ok", sent).predictions
    /\ provider' = "ok"
    /\ entry' = "api"
    /\ strategy' = "maximize_popt20"
    /\ classes_with_effort' = <<>>
    /\ pc' = "calculating"
    /\ UNCHANGED <<classes, args, solver, path, selected, result, raised, calls,
                   response>>
    /\ UNCHANGED services

\* one iteration of `for pred in predictions` in calculate_for_classes
CalculateItem ==
    /\ pc = "calculating"
    /\ LET pred == predictions[Len(classes_with_effort) + 1]
       IN  classes_with_effort' =
               classes_with_effort \o calculate_for_classes(effort_calculator, <<pred>>)
    /\ pc' = IF Len(classes_with_effort) + 1 = Len(predictions)
             THEN "enriching" ELSE "calculating"
    /\ UNCHANGED <<entry, strategy, classes, args, solver, path, selected, result,
                   raised, calls, provider, predictions, response>>
    /\ UNCHANGED services

\* one iteration of `for cls in classes` in enrich_with_criticality
EnrichItem ==
    /\ pc = "enriching"
    /\ Len(classes) < Len(classes_with_effort)
    /\ LET cls == classes_with_effort[Len(classes) + 1]
       IN  classes' = classes \o enrich_with_criticality(criticality_service, <<cls>>)
    /\ UNCHANGED <<pc, entry, strategy, args, solver, path, selected, result,
                   raised, calls, provider, predictions, classes_with_effort,
                   response>>
    /\ UNCHANGED services

\* the rest of prioritize: apply_strategy on the enriched list, the response
ApplyStrategy ==
    /\ pc = "enriching"
    /\ Len(classes) = Len(classes_with_effort)
    /\ RunStrategy("api", strategy, classes, StrategyKwargs(strategy, NoArgs))
    /\ UNCHANGED <<provider, predictions, classes_with_effort>>
    /\ UNCHANGED services

\* another thread calls effort_calculator.update_config(loc_per_hour=100)
ConcurrentUpdateConfig ==
    /\ effort_calculator' =
          update_config(effort_calculator, Some(100), None, None, None)
    /\ last' = [op |-> "update_config",
                args |-> [loc_per_hour |-> Some(100), complexity_factor |-> None,
                          min_effort_hours |-> None, max_effort_hours |-> None],
                raised |-> FALSE, result |-> <<>>]
    /\ UNCHANGED criticality_service
    /\ UNCHANGED request

\* another thread calls criticality_service.update_critical_modules('x', 'high')
ConcurrentUpdateCriticalModules ==
    /\ LET out == update_critical_modules(criticality_service, <<"x">>, "high")
       IN  /\ criticality_service' = out.self
           /\ last' = [op |-> "update_critical_modules",
                       args |-> [module |-> <<"x">>, criticality |-> "high"],
                       raised |-> out.raised, result |-> <<>>]
    /\ UNCHANGED effort_calculator
    /\ UNCHANGED request

\* another thread calls criticality_service.update_criticality_weight('high', 2.0)
ConcurrentUpdateCriticalityWeight ==
    /\ LET out == update_criticality_weight(criticality_service, "high", 20)
       IN  /\ criticality_service' = out.self
           /\ last' = [op |-> "update_criticality_weight",
                       args |-> [criticality |-> "high", weight |-> 20],
                       raised |-> out.raised, result |-> <<>>]
    /\ UNCHANGED effort_calculator
    /\ UNCHANGED request

ConcurrentNext ==
    \/ ReceivePredictions
    \/ CalculateItem
    \/ EnrichItem
    \/ ApplyStrategy
    \/ Return
    \/ ConcurrentUpdateConfig
    \/ ConcurrentUpdateCriticalModules
    \/ ConcurrentUpdateCriticalityWeight

ConcurrentSpec == ConcurrentInit /\ [][ConcurrentNext]_vars


\* ================================================================ claims
Returned == pc = "done" /\ ~raised
TotalRiskAll == SumOver(classes, AllPositions(classes), "risk_score")

\* C1 (as stated): budget_optimization returns a selection whose total
\* effort_hours is <= budget_hours for every budget_hours, and the empty list
\* for budget_hours <= 0.
C1_Original ==
    (Returned /\ strategy = "budget_optimization") =>
        /\ SumOver(classes, result, "effort_hours") <= Val(args.budget_hours)
        /\ (Val(args.budget_hours) <= 0 => result = <<>>)

\* C1 (amended): for budget_hours >= 0 the selection returned by
\* budget_optimization, exact or greedy, has total effort_hours <= budget_hours;
\* for budget_hours <= 0 it is the empty list (whose total, 0, is above a
\* negative budget).
C1_BudgetRespected ==
    (Returned /\ strategy = "budget_optimization") =>
        /\ (Val(args.budget_hours) >= 0 =>
                SumOver(classes, result, "effort_hours") <= Val(args.budget_hours))
        /\ (Val(args.budget_hours) <= 0 => result = <<>>)

\* a greedy budget selection that had to leave a candidate out
C1_Witness ==
    /\ Returned /\ strategy = "budget_optimization" /\ path = "greedy"
    /\ result # <<>> /\ Len(result) < Len(classes)
    /\ SumOver(classes, AllPositions(classes), "effort_hours") > Val(args.budget_hours)

\* the supplied constraints of a multi_objective call
SuppliedBudgetHolds(sel) ==
    IsNone(args.budget_hours)
    \/ SumOver(classes, sel, "effort_hours") <= Val(args.budget_hours)
SuppliedCoverageHolds(sel) ==
    IsNone(args.target_coverage)
    \/ RiskScale * SumOver(classes, sel, "risk_score")
         >= TotalRiskAll * Val(args.target_coverage)
SuppliedMaxHolds(sel) ==
    IsNone(args.max_classes) \/ Len(sel) <= Val(args.max_classes)

\* supplied values inside their documented ranges: budget_hours > 0,
\* target_coverage in (0,1], max_classes > 0
MultiArgsInRange ==
    /\ (IsNone(args.budget_hours) \/ Val(args.budget_hours) > 0)
    /\ (IsNone(args.target_coverage)
        \/ (Val(args.target_coverage) > 0 /\ Val(args.target_coverage) <= RiskScale))
    /\ (IsNone(args.max_classes) \/ Val(args.max_classes) > 0)

\* C2: the list returned by multi_objective_optimization satisfies every
\* supplied constraint at once (budget, coverage and max_classes); stated
\* here for supplied values inside their documented ranges that some subset
\* of the candidates can satisfy together.
C2_AllConstraintsHold ==
    (/\ Returned /\ strategy = "multi_objective" /\ classes # <<>>
     /\ MultiArgsInRange
     /\ ProgramOf(strategy, classes, args) # {}) =>
        /\ SuppliedBudgetHolds(result)
        /\ SuppliedCoverageHolds(result)
        /\ SuppliedMaxHolds(result)

SolverFailed ==
    /\ pc = "done"
    /\ solver.state \in {"unavailable", "solved", "raised"}
    /\ solver.status \notin {"OPTIMAL", "FEASIBLE"}

\* C3: whenever the solver is unavailable, raises, reports infeasibility or
\* does not solve, the optimize_* operation returns its greedy fallback and
\* no exception reaches the caller.
C3_FailureGivesGreedy ==
    SolverFailed =>
        /\ ~raised
        /\ path = "greedy"
        /\ selected = GreedyOf(strategy, classes, args)

\* C4: the call into the exact solver is bounded by an explicit time budget:
\* whenever the operation is inside solver.Solve(), a time limit is set on
\* the solver.
C4_SolveHasTimeBudget ==
    pc = "solving" => ~IsNone(solver.time_limit)

\* C5: the value returned by a selection operation shows which path produced
\* it: the list returned by a run on the exact path differs from the list
\* the greedy fallback returns for the same call.
C5_PathObservable ==
    (Returned /\ path = "exact") =>
        selected # GreedyOf(strategy, classes, args)

\* the response of a request for which the provider successfully returned []
EmptyListResponse == EarlyResponse(get_predictions("ok", <<>>))

\* C6: a prioritize request made while the provider is unreachable or answers
\* with an error ends in an outcome that differs from the outcome of a
\* request for which the provider successfully returned an empty list.
C6_UnavailableDistinct ==
    (pc = "done" /\ entry = "api" /\ provider \in {"unreachable", "http_error"}) =>
        response # EmptyListResponse

ProviderSentEmpty ==
    pc = "done" /\ entry = "api" /\ provider = "ok" /\ predictions = <<>>

InvalidArgs(a) ==
    \/ (~IsNone(a.target_coverage)
        /\ (Val(a.target_coverage) <= 0 \/ Val(a.target_coverage) > RiskScale))
    \/ (~IsNone(a.budget_hours) /\ Val(a.budget_hours) <= 0)
    \/ (~IsNone(a.k) /\ Val(a.k) <= 0)

\* C8: a request with an invalid target_coverage, budget_hours or k is
\* rejected before any sort or optimizer call, with an outcome that is not
\* the one of a valid request selecting no candidate (a normal return at the
\* strategy level, a 200 response under prioritize).
C8_InvalidRejected ==
    (pc = "done" /\ InvalidArgs(args)) =>
        /\ ~calls.sort
        /\ ~calls.optimizer
        /\ IF entry = "api" THEN response.status # 200 ELSE raised

\* C9: for a non-empty candidate list, coverage_optimization with
\* target_coverage = 1.0 returns all items of the input.
C9_FullCoverageReturnsAll ==
    (/\ Returned /\ strategy = "coverage_optimization" /\ classes # <<>>
     /\ Val(args.target_coverage) = RiskScale) =>
        (Len(result) = Len(classes) /\ Range(result) = DOMAIN classes)

\* C10: for target_coverage in (0,1] the selection returned by
\* optimize_with_coverage_constraint, exact or greedy, has total risk_score
\* >= target_coverage x (total risk_score of all candidates).
C10_CoverageReached ==
    (Returned /\ strategy = "coverage_optimization" /\ path \in {"exact", "greedy"}) =>
        RiskScale * SumOver(classes, selected, "risk_score")
            >= TotalRiskAll * Val(args.target_coverage)

\* the greedy path stopped before the end of the list with the target met
C10_Witness ==
    /\ Returned /\ strategy = "coverage_optimization" /\ path = "greedy"
    /\ selected # <<>> /\ Len(selected) < Len(classes)
    /\ TotalRiskAll > 0
    /\ Val(args.target_coverage) < RiskScale


\* sel is within budget b and no subset of the candidates within b has a
\* larger total effort_aware_score
BudgetOptimal(sel, b) ==
    /\ SumOver(classes, sel, "effort_hours") <= b
    /\ \A S \in SUBSET (DOMAIN classes) :
          SumSet(classes, S, "effort_hours") <= b =>
              SumSet(classes, S, "effort_aware_score")
                  <= SumOver(classes, sel, "effort_aware_score")

\* C11 (as stated): among all subsets within budget_hours, the subset returned
\* by optimize_with_budget_constraint has the maximal total effort_aware_score.
C11_Original ==
    (Returned /\ strategy = "budget_optimization" /\ path \in {"exact", "greedy"}) =>
        BudgetOptimal(selected, Val(args.budget_hours))

\* C11 (amended): when the solver reports OPTIMAL, the subset returned by
\* optimize_with_budget_constraint has the maximal total effort_aware_score
\* among the subsets within budget_hours.
C11_OptimalStatusIsMaximal ==
    (/\ Returned /\ strategy = "budget_optimization" /\ path = "exact"
     /\ solver.status = "OPTIMAL") =>
        BudgetOptimal(selected, Val(args.budget_hours))

\* an OPTIMAL answer that had to leave a candidate out
C11_Witness ==
    /\ Returned /\ strategy = "budget_optimization" /\ path = "exact"
    /\ solver.status = "OPTIMAL"
    /\ selected # <<>> /\ Len(selected) < Len(classes)
    /\ SumOver(classes, AllPositions(classes), "effort_hours") > Val(args.budget_hours)

\* C12: top_k_coverage returns at most max(k, 0) items, exactly
\* min(k, len(classes)) items when k >= 0, and the returned items are the
\* first ones of the list sorted by effort_aware_score descending.
C12_TopKCount ==
    (Returned /\ strategy = "top_k_coverage") =>
        /\ Len(result) <= Max(Val(args.k), 0)
        /\ (Val(args.k) >= 0 => Len(result) = Min(Val(args.k), Len(classes)))
        /\ result = SubSeq(SortByScore(classes, AllPositions(classes)), 1, Len(result))

NonIncreasingScore(res) ==
    \A i, j \in DOMAIN res :
        i < j => classes[res[i]].effort_aware_score >= classes[res[j]].effort_aware_score

TiesInInputOrder(res) ==
    \A i, j \in DOMAIN res :
        (i < j /\ classes[res[i]].effort_aware_score = classes[res[j]].effort_aware_score)
            => res[i] < res[j]

\* C13: in the list returned by each strategy effort_aware_score is
\* non-increasing, and items with equal effort_aware_score keep their
\* relative order from the input list, on the exact and on the greedy path.
C13_SortedStable ==
    (Returned /\ strategy \in Strategies) =>
        (NonIncreasingScore(result) /\ TiesInInputOrder(result))

SuccessfulResponse == pc = "done" /\ entry = "api" /\ response.status = 200

\* C14: in every successful response of prioritize the priorities of the n
\* plan items are exactly 1..n in list order, and effort_aware_score is
\* non-increasing as priority increases.
C14_DensePriorities ==
    SuccessfulResponse =>
        /\ \A i \in DOMAIN response.plan : response.plan[i].priority = i
        /\ \A i, j \in DOMAIN response.plan :
              i < j => response.plan[i].effort_aware_score
                         >= response.plan[j].effort_aware_score

\* a plan of two items whose input order was reversed by the strategy
C14_Witness ==
    /\ SuccessfulResponse
    /\ Len(response.plan) >= 2
    /\ response.plan[1].effort_aware_score > response.plan[2].effort_aware_score
    /\ result[1] > result[2]

\* the entries of map d other than key, in order
EntriesExcept(d, key) ==
    LET Other(e) == e[1] # key IN SelectSeq(d, Other)

\* the value d holds for key, if any
EntryOf(d, key) ==
    IF \E i \in DOMAIN d : d[i][1] = key
    THEN Some(d[CHOOSE i \in DOMAIN d : d[i][1] = key][2])
    ELSE None

\* C15: update_critical_modules with a tier outside {high, medium, low}, and
\* update_criticality_weight with such a tier or with weight <= 0, raise and
\* leave the keyword map and the weight map unchanged; an accepted call
\* changes exactly the one addressed entry.
C15_UpdatesValidated ==
    [][/\ last'.op = "update_critical_modules" =>
            LET a == last'.args
                key == Lower(a.module)
            IN  IF a.criticality \notin Tiers
                THEN last'.raised /\ criticality_service' = criticality_service
                ELSE /\ ~last'.raised
                     /\ criticality_service'.criticality_weights
                            = criticality_service.criticality_weights
                     /\ EntryOf(criticality_service'.critical_modules, key)
                            = Some(a.criticality)
                     /\ EntriesExcept(criticality_service'.critical_modules, key)
                            = EntriesExcept(criticality_service.critical_modules, key)
       /\ last'.op = "update_criticality_weight" =>
            LET a == last'.args
                old == criticality_service.criticality_weights
                new == criticality_service'.criticality_weights
            IN  IF a.criticality \notin Tiers \/ a.weight <= 0
                THEN last'.raised /\ criticality_service' = criticality_service
                ELSE /\ ~last'.raised
                     /\ criticality_service'.critical_modules
                            = criticality_service.critical_modules
                     /\ DOMAIN new = DOMAIN old \cup {a.criticality}
                     /\ new[a.criticality] = a.weight
                     /\ \A t \in DOMAIN old \ {a.criticality} : new[t] = old[t]
      ]_vars

\* an accepted update moved the default entry auth from high to low
C15_Witness ==
    /\ last.op = "update_critical_modules"
    /\ ~last.raised
    /\ last.args.criticality = "low"
    /\ EntryOf(criticality_service.critical_modules, <<"a", "u", "t", "h">>) = Some("low")
    /\ EntryOf(criticality_service.critical_modules, <<"d", "b">>) = Some("medium")

\* C16: for every configuration reachable through the constructor and the
\* update calls, and every class name, get_module_criticality returns one of
\* high, medium, low, so every enriched item carries such a module_criticality.
C16_TierInSet ==
    /\ last.op = "get_module_criticality" => last.result \in Tiers
    /\ last.op = "enrich_with_criticality" =>
          \A i \in DOMAIN last.result : last.result[i].module_criticality \in Tiers

\* C17: get_module_criticality returns low for an empty name; otherwise the
\* tier of the first keyword, in keyword-map order, that is a substring of
\* the leftmost dot-separated segment of the lower-cased name containing any
\* keyword; low when no segment contains a keyword.
C17_LeftmostSegmentFirstKeyword ==
    last.op = "get_module_criticality" =>
        LET name == last.args.class_name
            keywords == criticality_service.critical_modules
            segments == SplitDots(Lower(name), <<>>)
            InSegment(p) == {m \in DOMAIN keywords : Contains(segments[p], keywords[m][1])}
            holders == {p \in DOMAIN segments : InSegment(p) # {}}
        IN  IF name = <<>> \/ holders = {} THEN last.result = "low"
            ELSE LET p == CHOOSE q \in holders : \A r \in holders : q <= r
                     m == CHOOSE k \in InSegment(p) : \A l \in InSegment(p) : k <= l
                 IN  last.result = keywords[m][2]

\* db.Auth: the segment db comes first, although auth comes first in the map
C17_Witness ==
    /\ last.op = "get_module_criticality"
    /\ last.args.class_name = <<"d", "b", ".", "A", "u", "t", "h">>
    /\ last.result = "medium"
    /\ EntryOf(criticality_service.critical_modules, <<"a", "u", "t", "h">>) = Some("high")

\* C18: for every configuration reachable through the constructor and
\* update_config, the effort_hours produced by estimate_effort_hours and
\* calculate_for_classes lies in [min_effort_hours, max_effort_hours].
C18_EffortWithinBounds ==
    LET InBounds(e) == /\ effort_calculator.min_effort_hours <= e
                       /\ e <= effort_calculator.max_effort_hours
    IN  /\ last.op = "estimate_effort_hours" => InBounds(last.result)
        /\ last.op = "calculate_for_classes" =>
              \A i \in DOMAIN last.result : InBounds(last.result[i].effort_hours)

Abs(x) == IF x < 0 THEN -x ELSE x

\* v is num / den rounded to the nearest unit
Nearest(v, num, den) == 2 * Abs(v * den - num) <= den

\* C19: for loc <= 0 estimate_effort_hours returns min_effort_hours; for
\* loc > 0 it returns (loc / loc_per_hour) * m + 0.1 * num_methods
\* + 0.05 * num_dependencies clamped to [min_effort_hours, max_effort_hours]
\* and rounded to 2 decimals, with m = 1 for complexity <= 10 and
\* m = min(1 + (complexity - 10) / 20, complexity_factor) otherwise; under the
\* defaults loc=100, complexity=5 gives 2.0 and loc=200, complexity=15 gives 5.0.
C19_EstimateFormula ==
    last.op = "estimate_effort_hours" =>
        LET a == last.args
            c == effort_calculator
            \* everything in hundredths of hour, over the denominator den
            den == 20 * c.loc_per_hour
            m20 == IF a.complexity <= 10 THEN 20
                   ELSE IF a.complexity + 10 <= c.complexity_factor
                        THEN a.complexity + 10 ELSE c.complexity_factor
            methods == IF IsNone(a.num_methods) THEN 0 ELSE Val(a.num_methods)
            dependencies == IF IsNone(a.num_dependencies) THEN 0
                            ELSE Val(a.num_dependencies)
            raw == 100 * a.loc * m20 + (10 * methods + 5 * dependencies) * den
            clamped == IF raw < c.min_effort_hours * den THEN c.min_effort_hours * den
                       ELSE IF raw > c.max_effort_hours * den
                            THEN c.max_effort_hours * den
                       ELSE raw
            plain == IsNone(a.num_methods) /\ IsNone(a.num_dependencies)
        IN  /\ a.loc <= 0 => last.result = c.min_effort_hours
            /\ (a.loc > 0 /\ c.min_effort_hours <= c.max_effort_hours) =>
                  Nearest(last.result, clamped, den)
            /\ (c = EffortCalculator(None, None, None, None) /\ plain) =>
                  /\ (a.loc = 100 /\ a.complexity = 5) => last.result = 200
                  /\ (a.loc = 200 /\ a.complexity = 15) => last.result = 500

\* loc=200, complexity=15 under the defaults: 4h * 1.25
C19_Witness ==
    /\ last.op = "estimate_effort_hours"
    /\ effort_calculator = EffortCalculator(None, None, None, None)
    /\ last.args = [loc |-> 200, complexity |-> 15, num_methods |-> None,
                    num_dependencies |-> None]
    /\ last.result = 500

\* C20: calculate_effort_aware_score returns 0 when effort_hours <= 0 and
\* otherwise risk_score / max(effort_hours, 0.1) rounded to 4 decimals, hence
\* at most 10 * risk_score (0.75 with 4.0 gives 0.1875; 0.5 with 0.05 gives 5.0).
C20_ScoreFormula ==
    last.op = "calculate_effort_aware_score" =>
        LET a == last.args
            divisor == IF a.effort_hours < 10 THEN 10 ELSE a.effort_hours
        IN  /\ a.effort_hours <= 0 => last.result = 0
            /\ a.effort_hours > 0 =>
                  /\ Nearest(last.result, 10000 * a.risk_score, divisor)
                  /\ last.result <= 1000 * a.risk_score
            /\ (a.risk_score = 75 /\ a.effort_hours = 400) => last.result = 1875
            /\ (a.risk_score = 50 /\ a.effort_hours = 5) => last.result = 50000

\* risk 0.5 with effort 0.05: the divisor is raised to 0.1
C20_Witness ==
    /\ last.op = "calculate_effort_aware_score"
    /\ last.args = [risk_score |-> 50, effort_hours |-> 5]
    /\ last.result = 50000

C22_MetricsInUnitInterval ==
    last.op \in {"calculate_popt20", "calculate_recall_top20"} =>
        \/ IsNone(last.result)
        \/ (0 <= Val(last.result) /\ Val(last.result) <= 10000)

\* a single item larger than the 20% target: one fifth of its risk counts
C22_Witness ==
    /\ last.op = "calculate_popt20"
    /\ IsNone(last.args.actual_defects)
    /\ Len(classes) = 1
    /\ last.result = Some(2000)

\* the value of plan item i for calculate_popt20: its risk_score, or its
\* defect flag when actual_defects is supplied
PoptValueSum(actual_defects, k) ==
    IF IsNone(actual_defects)
    THEN SumField(SubSeq(classes, 1, k), "risk_score")
    ELSE Cardinality({j \in 1..k :
            defect_map_get(Val(actual_defects), classes[j].class_name)})

\* C24: calculate_popt20 walks the plan accumulating effort up to 20% of the
\* total effort, and the first item that would exceed the target contributes
\* its value times remaining_effort / effort_hours before the walk stops,
\* with risk_score as value and with the defect flag as value.
C24_PartialFraction ==
    last.op = "calculate_popt20" =>
        LET actual_defects == last.args.actual_defects
            n == Len(classes)
            total_effort == SumField(classes, "effort_hours")
            Prefix(k) == SumField(SubSeq(classes, 1, k), "effort_hours")
            whole == CHOOSE k \in 0..n :
                        /\ 5 * Prefix(k) <= total_effort
                        /\ k < n => 5 * Prefix(k + 1) > total_effort
            total_value == IF IsNone(actual_defects) THEN PoptValueSum(actual_defects, n)
                           ELSE total_defects(Val(actual_defects))
            effort == IF whole < n THEN classes[whole + 1].effort_hours ELSE 1
            part == IF whole < n
                    THEN (PoptValueSum(actual_defects, whole + 1)
                            - PoptValueSum(actual_defects, whole))
                         * (total_effort - 5 * Prefix(whole))
                    ELSE 0
        IN  (n > 0 /\ total_effort > 0 /\ total_value > 0) =>
                last.result =
                    Some(RoundHalfEven(
                        10000 * (PoptValueSum(actual_defects, whole) * 5 * effort + part),
                        5 * effort * total_value))

\* C25: for a plan of n >= 1 items, calculate_recall_top20 takes as its top
\* group the first max(1, round(0.2 * n)) items of the plan.
C25_TopGroupRounded ==
    (/\ last.op = "calculate_recall_top20"
     /\ IsNone(last.args.actual_defects)
     /\ SumField(classes, "risk_score") > 0) =>
        LET top_k == Max(1, RoundHalfEven(Len(classes), 5))
        IN  last.result =
                Some(RoundHalfEven(
                    10000 * SumField(SubSeq(classes, 1, top_k), "risk_score"),
                    SumField(classes, "risk_score")))

\* C26: with actual_defects supplied, calculate_recall_top20 returns the
\* number of defective classes in the top group divided by the number of
\* defective classes in the whole plan, None when that number is 0; defects
\* of classes absent from the plan do not change the result.
C26_RecallOverPlanDefects ==
    (last.op = "calculate_recall_top20" /\ ~IsNone(last.args.actual_defects)) =>
        LET defects == Val(last.args.actual_defects)
            Defective(k) == Cardinality({i \in 1..k :
                                defect_map_get(defects, classes[i].class_name)})
            in_plan == Defective(Len(classes))
            in_top == Defective(recall_top_k(Len(classes)))
        IN  last.result = IF in_plan = 0 THEN None
                          ELSE Some(RoundHalfEven(10000 * in_top, in_plan))

Orders(n) == {o \in [1..n -> 1..n] : \A i, j \in 1..n : i # j => o[i] # o[j]}

\* sel is what a first-fit walk over the candidates in the order o selects
\* under budget b: a candidate is taken exactly when its effort fits in
\* what the candidates taken before it left
FirstFit(sel, o, b) ==
    LET taken == Range(sel)
        Before(r) == SumSet(classes, {o[q] : q \in {q \in 1..(r - 1) : o[q] \in taken}},
                            "effort_hours")
        Kept(p) == p \in taken
    IN  /\ \A r \in DOMAIN o :
              o[r] \in taken <=> Before(r) + classes[o[r]].effort_hours <= b
        /\ sel = SelectSeq(o, Kept)

\* C28 (as stated): _greedy_budget_selection visits the candidates in
\* descending order of objective / effort_hours and adds a candidate exactly
\* when its effort fits in the remaining budget, skipping and continuing.
C28_Original ==
    (/\ pc = "done" /\ strategy = "budget_optimization"
     /\ \A i \in DOMAIN classes : classes[i].effort_hours > 0) =>
        \E o \in Orders(Len(classes)) :
            /\ \A r, q \in DOMAIN o :
                  r < q => classes[o[r]].effort_aware_score * classes[o[q]].effort_hours
                             >= classes[o[q]].effort_aware_score * classes[o[r]].effort_hours
            /\ FirstFit(selected, o, Val(args.budget_hours))

\* C28 (amended): the candidates are visited in descending order of
\* objective / max(effort_hours, 0.1); a candidate is added exactly when its
\* effort fits in the remaining budget, a candidate that does not fit is
\* skipped and the later ones are still visited; efforts 4, 5, 1, 2 h with
\* budget 5 h select exactly the 1 h and the 2 h items.
C28_GreedyFirstFit ==
    (pc = "done" /\ strategy = "budget_optimization") =>
        /\ \E o \in Orders(Len(classes)) :
              /\ \A r, q \in DOMAIN o :
                    r < q =>
                       classes[o[r]].effort_aware_score
                             * (IF classes[o[q]].effort_hours < 10 THEN 10
                                ELSE classes[o[q]].effort_hours)
                         >= classes[o[q]].effort_aware_score
                             * (IF classes[o[r]].effort_hours < 10 THEN 10
                                ELSE classes[o[r]].effort_hours)
              /\ FirstFit(selected, o, Val(args.budget_hours))
        /\ (classes = GreedyScenario /\ args.budget_hours = Some(500)) =>
              (selected = <<3, 4>> /\ SumOver(classes, selected, "effort_hours") = 300)

\* the candidate with the best ratio does not fit, a later one does
C28_Witness ==
    /\ pc = "done" /\ strategy = "budget_optimization"
    /\ Len(classes) = 2
    /\ selected = <<2>>
    /\ RatioGT(classes, 1, 2)
    /\ classes[1].effort_hours > Val(args.budget_hours)

\* C29: _greedy_multi_constraint skips a candidate that would exceed
\* budget_hours and goes on; every constraint passed as a non-None value,
\* 0 included, is enforced: the result never has total effort_hours above a
\* supplied budget_hours nor more items than a supplied max_classes.
C29_SuppliedConstraintsEnforced ==
    (pc = "done" /\ strategy = "multi_objective") =>
        /\ ~IsNone(args.budget_hours) =>
              SumOver(classes, selected, "effort_hours") <= Val(args.budget_hours)
        /\ ~IsNone(args.max_classes) => Len(selected) <= Val(args.max_classes)

\* C30: the list a strategy returns contains only items of its input list,
\* each at most once, on the exact path and on the greedy path;
\* maximize_popt20, and apply_strategy with an unrecognized name, return a
\* permutation of the whole input; the input list is not modified while
\* the strategy runs.
C30_ResultFromInput ==
    /\ [](Returned =>
            /\ \A r \in DOMAIN result : result[r] \in DOMAIN classes
            /\ \A r, q \in DOMAIN result : r # q => result[r] # result[q]
            /\ strategy \in {"maximize_popt20", "unrecognized"} =>
                  Range(result) = DOMAIN classes)
    /\ [][pc = "solving" => classes' = classes]_vars

\* an unrecognized name returned both candidates, the second one first
C30_Witness ==
    /\ Returned
    /\ strategy = "unrecognized"
    /\ Len(classes) = 2
    /\ result = <<2, 1>>

\* the configurations the services hold before, between and after the updates
SnapshotsOfEffort ==
    {EffortCalculator(None, None, None, None),
     update_config(EffortCalculator(None, None, None, None),
                   Some(100), None, None, None)}

SnapshotsOfCriticality ==
    LET c0 == CriticalityService(None, None)
        cm == update_critical_modules(c0, <<"x">>, "high").self
    IN  {c0, cm,
         update_criticality_weight(c0, "high", 20).self,
         update_criticality_weight(cm, "high", 20).self}

\* C23: a prioritize request that runs while update_critical_modules,
\* update_criticality_weight or update_config is called on the shared
\* services computes every item of its plan from one configuration (all old
\* or all new), never from a mixture, and does not fail.
C23_OneSnapshotPerRequest ==
    (pc = "done" /\ entry = "api") =>
        /\ ~raised
        /\ response.status = 200
        /\ \E e \in SnapshotsOfEffort, c \in SnapshotsOfCriticality :
              classes = enrich_with_criticality(c, calculate_for_classes(e, predictions))

====
